---- MODULE Spec2Model ----
(***************************************************************************)
(* Model of the flight-routes query server (server.js): the three route    *)
(* endpoints GET /routes, GET /airports/:iata/routes and                   *)
(* GET /countries/:country/routes over the read-only route_details view.   *)
(*                                                                         *)
(* Text values (query-string values, path parameters, text columns) are    *)
(* sequences of one-character strings, so that coercion (Number), the      *)
(* LIKE operator and truthiness are computed character by character.       *)
(***************************************************************************)
EXTENDS Integers, Sequences, FiniteSets, TLC

VARIABLES request, response, dbLog, pager, conns

vars == <<request, response, dbLog, pager, conns>>

(***************************************************************************)
(* Bounds of the model.                                                    *)
(***************************************************************************)
\* at most this many of the optional filters are present in one request
MaxFilters == 2
\* at most this many connections are open at the same time
MaxClients == 2
\* a paging client fetches at most this many pages
MaxPages == 7
\* the largest page size a paging client asks for
MaxPageSize == 3

\* F applied to the value of v, v evaluated once (a const binding)
Let(v, F(_)) == CHOOSE r \in {F(x) : x \in {v}} : TRUE

(***************************************************************************)
(* Text helpers.                                                           *)
(***************************************************************************)
Digits == <<"0", "1", "2", "3", "4", "5", "6", "7", "8", "9">>

IsDigit(c) == \E i \in 1..10 : Digits[i] = c

DigitVal(c) == (CHOOSE i \in 1..10 : Digits[i] = c) - 1

RECURSIVE Pow10(_)
Pow10(k) == IF k = 0 THEN 1 ELSE 10 * Pow10(k - 1)

RECURSIVE DigitsValUpTo(_, _)
\* value of the first k characters of a sequence of digit characters
DigitsValUpTo(s, k) ==
  IF k = 0 THEN 0 ELSE 10 * DigitsValUpTo(s, k - 1) + DigitVal(s[k])

DigitsVal(s) == DigitsValUpTo(s, Len(s))

AllDigits(s) == \A i \in 1..Len(s) : IsDigit(s[i])

\* position of the first "." in s, or 0
DotPos(s) ==
  IF \E i \in 1..Len(s) : s[i] = "."
  THEN CHOOSE i \in 1..Len(s) : s[i] = "." /\ \A j \in 1..(i - 1) : s[j] # "."
  ELSE 0

(***************************************************************************)
(* JavaScript numbers: NaN, or the rational num/den with den a power of 10.*)
(***************************************************************************)
NaN == [nan |-> TRUE, num |-> 0, den |-> 1]

Num(n, d) == [nan |-> FALSE, num |-> n, den |-> d]

\* the value of the digits ip before and fp after the decimal point
Decimal(ip, fp) ==
  IF ~AllDigits(ip) \/ ~AllDigits(fp) \/ (ip = <<>> /\ fp = <<>>)
  THEN NaN
  ELSE Num(DigitsVal(ip) * Pow10(Len(fp)) + DigitsVal(fp), Pow10(Len(fp)))

\* s split at the decimal point dot (0: no point)
SplitDecimal(s, dot) ==
  IF dot = 0 THEN Decimal(s, <<>>)
  ELSE Decimal(SubSeq(s, 1, dot - 1), SubSeq(s, dot + 1, Len(s)))

\* the unsigned decimal literals: digits, digits "." digits (either side of
\* the dot may be empty, not both)
UnsignedNumber(s) ==
  IF s = <<>> THEN NaN
  ELSE Let(DotPos(s), LAMBDA dot : SplitDecimal(s, dot))

\* Number(s) of a string: the empty string is 0, a decimal literal with an
\* optional sign is its value, any other text is NaN
Negate(u) == IF u.nan THEN NaN ELSE Num(0 - u.num, u.den)

NumberOfText(s) ==
  IF s = <<>> THEN Num(0, 1)
  ELSE IF Head(s) = "-" THEN Let(UnsignedNumber(Tail(s)), Negate)
       ELSE IF Head(s) = "+" THEN UnsignedNumber(Tail(s))
       ELSE UnsignedNumber(s)

Number(s) == Let(s, NumberOfText)

\* truthiness of a number: NaN and 0 are falsy
NumTruthy(n) == ~n.nan /\ n.num # 0

\* a || b on numbers
NumOr(a, b) == IF NumTruthy(a) THEN a ELSE b

IsInteger(n) == ~n.nan /\ n.num % n.den = 0

IntegerOf(n) == n.num \div n.den

(***************************************************************************)
(* The dataset: the rows of the route_details view in the order a scan of  *)
(* the view yields them, and the route_airlines junction table.  The       *)
(* database is opened read-only; the dataset never changes.                *)
(***************************************************************************)
UK == <<"U", "K">>
FR == <<"F", "R">>
LHR == <<"L">>
CDG == <<"P">>
XXX == <<"X">>

Row(id, di, dc, ai, ac, dur, an) ==
  [route_id |-> id, departure_iata |-> di, departure_country |-> dc,
   arrival_iata |-> ai, arrival_country |-> ac, duration_min |-> dur,
   airline_name |-> an]

Dataset ==
  << Row(1, LHR, UK, CDG, FR, 75, <<"B", "A">>),
     Row(2, CDG, FR, LHR, UK, 60, <<"a", "f">>),
     Row(2, CDG, FR, LHR, UK, 60, <<"B", "A">>),
     Row(3, LHR, UK, XXX, <<>>, 60, <<"a", "f">>),
     Row(4, LHR, UK, CDG, FR, 90, <<"b", "a">>) >>

RouteAirlines ==
  { [route_id |-> 1, airline_id |-> 1],
    [route_id |-> 2, airline_id |-> 2],
    [route_id |-> 2, airline_id |-> 1],
    [route_id |-> 3, airline_id |-> 2],
    [route_id |-> 4, airline_id |-> 3] }

(***************************************************************************)
(* Values bound to a statement.  A JavaScript string is bound as TEXT, a   *)
(* JavaScript number as a numeric value, and NaN is stored as NULL.        *)
(***************************************************************************)
Text(s) == [ty |-> "text", s |-> s, num |-> 0, den |-> 1]

Null == [ty |-> "null", s |-> <<>>, num |-> 0, den |-> 1]

BindNumber(n) ==
  IF n.nan THEN Null ELSE [ty |-> "num", s |-> <<>>, num |-> n.num, den |-> n.den]

\* the numeric value of a bound value compared with an INTEGER column: TEXT
\* that looks like a number is converted (column affinity), other TEXT and
\* NULL compare equal to no integer
NumericOf(p) ==
  IF p.ty = "num" THEN Num(p.num, p.den)
  ELSE IF p.ty = "text" /\ p.s # <<>> THEN Number(p.s)
  ELSE NaN

\* the rows of route_airlines whose airline_id equals the bound value
AirlineRoutes(p) ==
  Let(NumericOf(p),
      LAMBDA n : {ra.route_id : ra \in {r \in RouteAirlines :
                                          ~n.nan /\ r.airline_id * n.den = n.num}})

\* duration_min <= ? and duration_min >= ? : a comparison with NULL is not true
NumColumnLE(col, p) == p.ty = "num" /\ col * p.den <= p.num

NumColumnGE(col, p) == p.ty = "num" /\ col * p.den >= p.num

TextColumnEquals(col, p) == p.ty = "text" /\ col = p.s

Letters == <<"a", "b", "f">>

Capitals == <<"A", "B", "F">>

\* LIKE folds the case of ASCII letters
Fold(c) ==
  IF \E i \in 1..Len(Capitals) : Capitals[i] = c
  THEN Letters[CHOOSE i \in 1..Len(Capitals) : Capitals[i] = c]
  ELSE c

RECURSIVE Like(_, _)
\* text LIKE pattern: % matches any run of characters, _ any one character
Like(pattern, text) ==
  IF pattern = <<>> THEN text = <<>>
  ELSE IF Head(pattern) = "%"
       THEN Like(Tail(pattern), text) \/ (text # <<>> /\ Like(pattern, Tail(text)))
       ELSE /\ text # <<>>
            /\ (Head(pattern) = "_" \/ Fold(Head(pattern)) = Fold(Head(text)))
            /\ Like(Tail(pattern), Tail(text))

TextColumnLike(col, p) == p.ty = "text" /\ Like(p.s, col)

\* one predicate fragment of a WHERE clause with its bound value, on a row
Holds(cond, p, row) ==
  CASE cond = "route_id IN (SELECT route_id FROM route_airlines WHERE airline_id = ?)" ->
         row.route_id \in AirlineRoutes(p)
    [] cond = "airline_name LIKE ?" -> TextColumnLike(row.airline_name, p)
    [] cond = "departure_iata = ?" -> TextColumnEquals(row.departure_iata, p)
    [] cond = "arrival_iata = ?" -> TextColumnEquals(row.arrival_iata, p)
    [] cond = "departure_country = ?" -> TextColumnEquals(row.departure_country, p)
    [] cond = "arrival_country = ?" -> TextColumnEquals(row.arrival_country, p)
    [] cond = "duration_min <= ?" -> NumColumnLE(row.duration_min, p)
    [] cond = "duration_min >= ?" -> NumColumnGE(row.duration_min, p)

\* the conjunction of the fragments; the i-th ? takes the i-th bound value
Where(conditions, params, row) ==
  \A i \in 1..Len(conditions) : Holds(conditions[i], params[i], row)

RECURSIVE SelectWhere(_, _, _)
\* the rows of a sequence that satisfy the WHERE clause, in scan order
SelectWhere(rows, conditions, params) ==
  IF rows = <<>> THEN <<>>
  ELSE (IF Where(conditions, params, Head(rows)) THEN <<Head(rows)>> ELSE <<>>)
       \o SelectWhere(Tail(rows), conditions, params)

RECURSIVE InsertByDuration(_, _)
\* insert a row after every row whose duration_min is not greater
InsertByDuration(sorted, row) ==
  IF sorted = <<>> THEN <<row>>
  ELSE IF Head(sorted).duration_min <= row.duration_min
       THEN <<Head(sorted)>> \o InsertByDuration(Tail(sorted), row)
       ELSE <<row>> \o sorted

\* a query that leaves ORDER BY out
OrderByNothing(rows) == rows

RECURSIVE OrderByDuration(_)
\* ORDER BY duration_min: rows with equal keys keep their scan order
OrderByDuration(rows) ==
  IF rows = <<>> THEN <<>>
  ELSE Let(OrderByDuration(SubSeq(rows, 1, Len(rows) - 1)),
           LAMBDA sorted : InsertByDuration(sorted, rows[Len(rows)]))

\* SELECT ... FROM route_details WHERE ... ORDER BY duration_min
Query(conditions, params) ==
  Let(SelectWhere(Dataset, conditions, params), OrderByDuration)

\* a count that leaves the WHERE clause out
CountQueryUnfiltered(conditions, params) == Len(Dataset)

\* SELECT COUNT(*) as count FROM (query)
CountQuery(conditions, params) == Len(Query(conditions, params))

\* LIMIT ? OFFSET ? accept integer values only (datatype mismatch otherwise)
LimitOffsetOK(limitNum, offsetNum) == IsInteger(limitNum) /\ IsInteger(offsetNum)

\* query LIMIT ? OFFSET ? : a negative LIMIT is no limit, a negative OFFSET is 0
LimitOffset(rows, lim, offset) ==
  LET off  == IF offset < 0 THEN 0 ELSE offset
      last == IF lim < 0 \/ off + lim > Len(rows) THEN Len(rows) ELSE off + lim
  IN  SubSeq(rows, off + 1, last)

PageQuery(conditions, params, limitNum, offsetNum) ==
  Let(Query(conditions, params),
      LAMBDA rows : LimitOffset(rows, IntegerOf(limitNum), IntegerOf(offsetNum)))

(***************************************************************************)
(* Request parsing.  req.query maps the names of the parameters that are   *)
(* present to their text; a destructuring default applies to an absent     *)
(* parameter only.                                                         *)
(***************************************************************************)
Has(q, name) == name \in DOMAIN q

\* const { name = default } = req.query
Param(q, name, default) == IF Has(q, name) THEN q[name] ELSE default

\* a test for presence only: if (name !== undefined)
TruthyWhenPresent(q, name) == Has(q, name)

\* if (name): an absent parameter and the empty string are falsy
Truthy(q, name) == Has(q, name) /\ q[name] # <<>>

\* one element when the test holds, none otherwise (a conditional push)
PushIf(test, x) == IF test THEN <<x>> ELSE <<>>

TrueText == <<"t", "r", "u", "e">>
FalseText == <<"f", "a", "l", "s", "e">>
DepartureText == <<"d", "e", "p", "a", "r", "t", "u", "r", "e">>
ArrivalText == <<"a", "r", "r", "i", "v", "a", "l">>
DefaultLimitText == <<"1", "0", "0">>
DefaultOffsetText == <<"0">>

\* a pattern without the surrounding wildcards: airline_name LIKE v
ContainsNothingAround(v) == v

\* `%${airline_name}%`
Contains(v) == <<"%">> \o v \o <<"%">>

\* Number(limit) || 100
LimitNum(limit) == NumOr(Number(limit), Num(100, 1))

\* an offset that is read and never applied
OffsetNumIgnored(offset) == Num(0, 1)

\* Number(offset) || 0
OffsetNum(offset) == NumOr(Number(offset), Num(0, 1))

\* a number as it appears in a JSON response body
Json(n) == [num |-> n.num, den |-> n.den]

\* a catch block that passes the message of the error on to the client
InternalErrorWithCause == [status |-> 500, body |-> [error |-> "datatype mismatch"]]

\* the catch block of every handler
InternalError == [status |-> 500, body |-> [error |-> "Internal server error"]]

BadDirection == [status |-> 400, body |-> [error |-> "Invalid direction parameter"]]

Ok(body) == [status |-> 200, body |-> body]

\* what a handler leaves behind: the response sent and the statements run
Outcome(res, log) == [res |-> res, log |-> log]

(***************************************************************************)
(* app.get("/routes")                                                      *)
(***************************************************************************)
RoutesConditions(q) ==
     PushIf(Truthy(q, "airline_id"),
            "route_id IN (SELECT route_id FROM route_airlines WHERE airline_id = ?)")
  \o PushIf(Truthy(q, "airline_name"), "airline_name LIKE ?")
  \o PushIf(Truthy(q, "departure_iata"), "departure_iata = ?")
  \o PushIf(Truthy(q, "arrival_iata"), "arrival_iata = ?")
  \o PushIf(Truthy(q, "departure_country"), "departure_country = ?")
  \o PushIf(Truthy(q, "arrival_country"), "arrival_country = ?")
  \o PushIf(Truthy(q, "max_duration"), "duration_min <= ?")
  \o PushIf(Truthy(q, "min_duration"), "duration_min >= ?")

RoutesParams(q) ==
     (IF Truthy(q, "airline_id") THEN <<Text(q["airline_id"])>> ELSE <<>>)
  \o (IF Truthy(q, "airline_name") THEN <<Text(Contains(q["airline_name"]))>> ELSE <<>>)
  \o (IF Truthy(q, "departure_iata") THEN <<Text(q["departure_iata"])>> ELSE <<>>)
  \o (IF Truthy(q, "arrival_iata") THEN <<Text(q["arrival_iata"])>> ELSE <<>>)
  \o (IF Truthy(q, "departure_country") THEN <<Text(q["departure_country"])>> ELSE <<>>)
  \o (IF Truthy(q, "arrival_country") THEN <<Text(q["arrival_country"])>> ELSE <<>>)
  \o (IF Truthy(q, "max_duration") THEN <<BindNumber(Number(q["max_duration"]))>> ELSE <<>>)
  \o (IF Truthy(q, "min_duration") THEN <<BindNumber(Number(q["min_duration"]))>> ELSE <<>>)

\* all compared with the boolean true, which no query-string value equals
RoutesReturnAllNever(q) == FALSE

\* the test the comment above the branch describes: all=true, or a limit
\* greater than the total count
RoutesReturnAllOrLargeLimit(q) ==
  \/ Param(q, "all", FalseText) = TrueText
  \/ \E limit \in {Number(Param(q, "limit", DefaultLimitText))} :
        ~limit.nan /\ limit.num > CountQuery(RoutesConditions(q), RoutesParams(q)) * limit.den

RoutesReturnAll(q) == Param(q, "all", FalseText) = TrueText

\* what the handler has worked out of the request before it runs a statement
RoutesPlan(q) ==
  [conditions |-> RoutesConditions(q),
   params     |-> RoutesParams(q),
   returnAll  |-> RoutesReturnAll(q),
   limitNum   |-> LimitNum(Param(q, "limit", DefaultLimitText)),
   offsetNum  |-> OffsetNum(Param(q, "offset", DefaultOffsetText))]

\* the count statement, then the unpaginated or the paginated statement
RoutesRespond(plan) ==
  LET totalCount == CountQuery(plan.conditions, plan.params)
  IN  IF plan.returnAll
      THEN Let(Query(plan.conditions, plan.params),
               LAMBDA routes :
                 Outcome(Ok([routes |-> routes,
                             pagination |-> [total |-> totalCount,
                                             returnedCount |-> Len(routes),
                                             all |-> TRUE]]),
                         <<"count", "all">>))
      ELSE IF ~LimitOffsetOK(plan.limitNum, plan.offsetNum)
           THEN Outcome(InternalError, <<"count", "page failed">>)
           ELSE Outcome(Ok([routes |-> PageQuery(plan.conditions, plan.params,
                                                 plan.limitNum, plan.offsetNum),
                            pagination |-> [total |-> totalCount,
                                            limit |-> Json(plan.limitNum),
                                            offset |-> Json(plan.offsetNum),
                                            all |-> FALSE]]),
                        <<"count", "page">>)

RoutesHandler(q) == Let(RoutesPlan(q), RoutesRespond)

(***************************************************************************)
(* app.get("/airports/:iata/routes")                                       *)
(***************************************************************************)
\* a handler that leaves the check of direction out
ValidDirectionAny(direction) == TRUE

\* ["departure", "arrival"].includes(direction)
ValidDirection(direction) == direction \in {DepartureText, ArrivalText}

\* a handler that binds the airport code to departure_iata whatever direction is
AirportConditionsDepartureOnly(q) ==
     <<"departure_iata = ?">>
  \o PushIf(Truthy(q, "airline_id"),
            "route_id IN (SELECT route_id FROM route_airlines WHERE airline_id = ?)")
  \o PushIf(Truthy(q, "airline_name"), "airline_name LIKE ?")

AirportConditions(q) ==
     <<IF Param(q, "direction", DepartureText) = DepartureText
       THEN "departure_iata = ?" ELSE "arrival_iata = ?">>
  \o PushIf(Truthy(q, "airline_id"),
            "route_id IN (SELECT route_id FROM route_airlines WHERE airline_id = ?)")
  \o PushIf(Truthy(q, "airline_name"), "airline_name LIKE ?")

AirportParams(iata, q) ==
     <<Text(iata)>>
  \o (IF Truthy(q, "airline_id") THEN <<BindNumber(Number(q["airline_id"]))>> ELSE <<>>)
  \o (IF Truthy(q, "airline_name") THEN <<Text(Contains(q["airline_name"]))>> ELSE <<>>)

AirportReturnAll(q) == Param(q, "all", TrueText) = TrueText

AirportPlan(iata, q) ==
  [airport    |-> iata,
   direction  |-> Param(q, "direction", DepartureText),
   conditions |-> AirportConditions(q),
   params     |-> AirportParams(iata, q),
   returnAll  |-> AirportReturnAll(q),
   limitNum   |-> LimitNum(Param(q, "limit", DefaultLimitText)),
   offsetNum  |-> OffsetNum(Param(q, "offset", DefaultOffsetText))]

\* the rows of the unpaginated or the paginated statement, or the failure of
\* the paginated statement
SelectRoutes(plan) ==
  IF plan.returnAll
  THEN [failed |-> FALSE, routes |-> Query(plan.conditions, plan.params),
        log |-> <<"count", "all">>]
  ELSE IF ~LimitOffsetOK(plan.limitNum, plan.offsetNum)
       THEN [failed |-> TRUE, routes |-> <<>>, log |-> <<"count", "page failed">>]
       ELSE [failed |-> FALSE,
             routes |-> PageQuery(plan.conditions, plan.params,
                                  plan.limitNum, plan.offsetNum),
             log |-> <<"count", "page">>]

AirportRespond(plan) ==
  IF ~ValidDirection(plan.direction) THEN Outcome(BadDirection, <<>>)
  ELSE Let(SelectRoutes(plan),
           LAMBDA got :
             IF got.failed THEN Outcome(InternalError, got.log)
             ELSE Outcome(Ok([airport |-> plan.airport,
                              direction |-> plan.direction,
                              total |-> CountQuery(plan.conditions, plan.params),
                              returnedCount |-> Len(got.routes),
                              all |-> plan.returnAll,
                              routes |-> got.routes]),
                          got.log))

AirportRoutesHandler(iata, q) == Let(AirportPlan(iata, q), AirportRespond)

(***************************************************************************)
(* app.get("/countries/:country/routes")                                   *)
(***************************************************************************)
\* a handler that reads destination_country as the arrival side whatever
\* direction is
CountryConditionsDestinationArrival(q) ==
  LET departure == Param(q, "direction", DepartureText) = DepartureText
  IN     <<IF departure THEN "departure_country = ?" ELSE "arrival_country = ?">>
      \o PushIf(Truthy(q, "destination_country"), "arrival_country = ?")
      \o PushIf(Truthy(q, "airline_name"), "airline_name LIKE ?")

CountryConditions(q) ==
  LET departure == Param(q, "direction", DepartureText) = DepartureText
  IN     <<IF departure THEN "departure_country = ?" ELSE "arrival_country = ?">>
      \o PushIf(Truthy(q, "destination_country"),
                IF departure THEN "arrival_country = ?" ELSE "departure_country = ?")
      \o PushIf(Truthy(q, "airline_name"), "airline_name LIKE ?")

CountryParams(country, q) ==
     <<Text(country)>>
  \o (IF Truthy(q, "destination_country") THEN <<Text(q["destination_country"])>> ELSE <<>>)
  \o (IF Truthy(q, "airline_name") THEN <<Text(Contains(q["airline_name"]))>> ELSE <<>>)

CountryReturnAll(q) == Param(q, "all", FalseText) = TrueText

\* destination_country || null
OrNull(q, name) ==
  IF Truthy(q, name) THEN [null |-> FALSE, s |-> q[name]] ELSE [null |-> TRUE, s |-> <<>>]

CountryPlan(country, q) ==
  [country    |-> country,
   direction  |-> Param(q, "direction", DepartureText),
   destination_country |-> OrNull(q, "destination_country"),
   conditions |-> CountryConditions(q),
   params     |-> CountryParams(country, q),
   returnAll  |-> CountryReturnAll(q),
   limitNum   |-> LimitNum(Param(q, "limit", DefaultLimitText)),
   offsetNum  |-> OffsetNum(Param(q, "offset", DefaultOffsetText))]

CountryRespond(plan) ==
  IF ~ValidDirection(plan.direction) THEN Outcome(BadDirection, <<>>)
  ELSE Let(SelectRoutes(plan),
           LAMBDA got :
             IF got.failed THEN Outcome(InternalError, got.log)
             ELSE Outcome(Ok([country |-> plan.country,
                              direction |-> plan.direction,
                              destination_country |-> plan.destination_country,
                              total |-> CountQuery(plan.conditions, plan.params),
                              returnedCount |-> Len(got.routes),
                              all |-> plan.returnAll,
                              routes |-> got.routes]),
                          got.log))

CountryRoutesHandler(country, q) == Let(CountryPlan(country, q), CountryRespond)

\* the handler Express routes a request to
Handle(req) ==
  CASE req.endpoint = "/routes" -> RoutesHandler(req.query)
    [] req.endpoint = "/airports/:iata/routes" -> AirportRoutesHandler(req.key, req.query)
    [] req.endpoint = "/countries/:country/routes" -> CountryRoutesHandler(req.key, req.query)

(***************************************************************************)
(* The requests of the model.                                              *)
(***************************************************************************)
EmptyQuery == [n \in {} |-> <<>>]

RECURSIVE QueriesOver(_, _)
\* every assignment of one of its values to each parameter name of names
QueriesOver(names, values) ==
  IF names = {} THEN {EmptyQuery}
  ELSE LET n == CHOOSE n \in names : TRUE
       IN  {(n :> v) @@ q : v \in values[n], q \in QueriesOver(names \ {n}, values)}

\* every query with at most max of the parameters present
Queries(values, max) ==
  UNION {QueriesOver(names, values) :
           names \in {D \in SUBSET DOMAIN values : Cardinality(D) <= max}}

RoutesFilterValues ==
  [airline_id        |-> {<<>>, <<"1">>, <<"x">>},
   airline_name      |-> {<<>>, <<"b">>, <<"%">>, <<"_", "f">>},
   departure_iata    |-> {LHR},
   arrival_iata      |-> {CDG},
   departure_country |-> {UK},
   arrival_country   |-> {<<>>, FR},
   max_duration      |-> {<<>>, <<"6", "0">>, <<"a", "b", "c">>},
   min_duration      |-> {<<"7", "5">>, <<"x">>}]

PaginationValues ==
  [limit  |-> {<<"1">>, <<"2">>, <<"-", "1">>, <<"2", ".", "5">>, <<"a", "b", "c">>},
   offset |-> {<<"1">>, <<"-", "1">>, <<"1", ".", "5">>},
   all    |-> {TrueText, FalseText}]

DirectionValues ==
  [direction |-> {DepartureText, ArrivalText, <<>>, <<"b", "o", "g", "u", "s">>}]

AirportFilterValues ==
  [airline_id   |-> {<<>>, <<"1">>, <<"x">>},
   airline_name |-> {<<>>, <<"b">>, <<"%">>, <<"_", "f">>}]

CountryFilterValues ==
  [destination_country |-> {<<>>, FR, UK},
   airline_name        |-> {<<>>, <<"b">>, <<"%">>, <<"_", "f">>}]

PaginationQueries == Queries(PaginationValues, 3)

DirectionQueries == Queries(DirectionValues, 1)

RoutesQueries ==
  {f @@ p : f \in Queries(RoutesFilterValues, MaxFilters), p \in PaginationQueries}

AirportQueries ==
  {d @@ f @@ p : d \in DirectionQueries, f \in Queries(AirportFilterValues, MaxFilters),
                 p \in PaginationQueries}

CountryQueries ==
  {d @@ f @@ p : d \in DirectionQueries, f \in Queries(CountryFilterValues, MaxFilters),
                 p \in PaginationQueries}

AirportCodes == {LHR, CDG}

CountryNames == {UK, FR}

Request(endpoint, key, q) == [endpoint |-> endpoint, key |-> key, query |-> q]

NoRequest == [endpoint |-> "none", key |-> <<>>, query |-> EmptyQuery]

NoResponse == [status |-> 0, body |-> [error |-> "none"]]

NoPager == [state |-> "off"]

NoConns == <<>>

(***************************************************************************)
(* The server answering one request at a time, and the client reading the  *)
(* answer before it sends the next request.                                *)
(***************************************************************************)
Init ==
  /\ request = NoRequest
  /\ response = NoResponse
  /\ dbLog = <<>>
  /\ pager = NoPager
  /\ conns = NoConns

Idle == response = NoResponse

Serve(req) ==
  \E out \in {Handle(req)} :
     /\ request' = req
     /\ response' = out.res
     /\ dbLog' = out.log
     /\ UNCHANGED <<pager, conns>>

GetRoutes ==
  /\ Idle
  /\ \E q \in RoutesQueries : Serve(Request("/routes", <<>>, q))

GetAirportRoutes ==
  /\ Idle
  /\ \E iata \in AirportCodes, q \in AirportQueries :
        Serve(Request("/airports/:iata/routes", iata, q))

GetCountryRoutes ==
  /\ Idle
  /\ \E country \in CountryNames, q \in CountryQueries :
        Serve(Request("/countries/:country/routes", country, q))

\* the client takes the response; the next request can be sent
Receive ==
  /\ response # NoResponse
  /\ request' = NoRequest
  /\ response' = NoResponse
  /\ dbLog' = <<>>
  /\ UNCHANGED <<pager, conns>>

Next == GetRoutes \/ GetAirportRoutes \/ GetCountryRoutes \/ Receive

Spec == Init /\ [][Next]_vars

(***************************************************************************)
(* Reading the current request and its response.                           *)
(***************************************************************************)
RouteEndpoints ==
  {"/routes", "/airports/:iata/routes", "/countries/:country/routes"}

ScopedEndpoints == {"/airports/:iata/routes", "/countries/:country/routes"}

Answered == response.status = 200

Routes == response.body.routes

Meta == IF request.endpoint = "/routes" THEN response.body.pagination ELSE response.body

\* the request with the named parameters removed
Without(req, names) ==
  [req EXCEPT !.query = [n \in (DOMAIN req.query) \ names |-> req.query[n]]]

\* the request with one parameter set
With(req, name, v) == [req EXCEPT !.query = (name :> v) @@ req.query]

\* the mode the request asks for: all=true, or no all on the airport endpoint
AsksAll(req) ==
  IF Has(req.query, "all") THEN req.query["all"] = TrueText
  ELSE req.endpoint = "/airports/:iata/routes"

NonDecreasing(rows) ==
  \A i \in 1..(Len(rows) - 1) : rows[i].duration_min <= rows[i + 1].duration_min

(***************************************************************************)
(* C1.  On the three route endpoints the total of a successful response is *)
(* the number of rows the same request returns with all=true, whatever     *)
(* limit, offset and all it carries.                                       *)
(***************************************************************************)
C1_TotalIsFilteredCount ==
  Answered => Meta.total = Len(Handle(With(request, "all", TrueText)).res.body.routes)

\* a page shorter than the filtered set, taken at a positive offset
C1_Witness ==
  /\ Answered
  /\ ~Meta.all
  /\ Has(request.query, "offset") /\ request.query["offset"] = <<"1">>
  /\ Len(Routes) = 1
  /\ Meta.total = 3

(***************************************************************************)
(* C3.  In every successful response of the three route endpoints, in both *)
(* modes, duration_min does not decrease from one row to the next.         *)
(***************************************************************************)
C3_RowsOrderedByDuration == Answered => NonDecreasing(Routes)

\* all five rows returned, which the scan yields out of order
C3_Witness ==
  /\ Answered
  /\ Len(Routes) = Len(Dataset)
  /\ ~NonDecreasing(Dataset)
  /\ Routes[1].duration_min < Routes[Len(Routes)].duration_min

(***************************************************************************)
(* C4.  On the airport and country endpoints a direction that is present   *)
(* and is neither "departure" nor "arrival" is answered with 400 and no    *)
(* statement is run, whatever the other parameters are.                    *)
(***************************************************************************)
C4_BadDirectionRejected ==
  ( /\ request.endpoint \in ScopedEndpoints
    /\ Has(request.query, "direction")
    /\ request.query["direction"] \notin {DepartureText, ArrivalText} )
  => (response.status = 400 /\ dbLog = <<>>)

\* a rejected request that also carries a filter and all=true
C4_Witness ==
  /\ request.endpoint \in ScopedEndpoints
  /\ Has(request.query, "direction")
  /\ request.query["direction"] = <<"b", "o", "g", "u", "s">>
  /\ Has(request.query, "airline_name")
  /\ AsksAll(request)
  /\ response.status = 400

(***************************************************************************)
(* C5.  On the three route endpoints a request in return-all mode gets     *)
(* every matching row, limit and offset ignored, with all: true and        *)
(* returnedCount = routes.length = total.                                  *)
(***************************************************************************)
C5_ReturnAllComplete ==
  (request.endpoint \in RouteEndpoints /\ response.status # 400 /\ AsksAll(request))
  => /\ Answered
     /\ Routes = Handle(Without(request, {"limit", "offset"})).res.body.routes
     /\ Meta.all = TRUE
     /\ Meta.returnedCount = Len(Routes)
     /\ Meta.returnedCount = Meta.total

\* all=true with a limit smaller than the result and an offset
C5_Witness ==
  /\ Answered
  /\ Has(request.query, "all") /\ request.query["all"] = TrueText
  /\ Has(request.query, "limit") /\ request.query["limit"] = <<"1">>
  /\ Has(request.query, "offset")
  /\ Len(Routes) >= 3

(***************************************************************************)
(* A client that reads a result page by page: it fetches the whole result  *)
(* with all=true, then the pages at offsets 0, limit, 2*limit, ... with    *)
(* all=false until a page comes back empty.                                *)
(***************************************************************************)
RECURSIVE DecimalText(_)
\* the decimal text of a natural number, as the client puts it in the URL
DecimalText(n) ==
  IF n < 10 THEN <<Digits[n + 1]>>
  ELSE DecimalText(n \div 10) \o <<Digits[(n % 10) + 1]>>

PagerDirectionValues == [direction |-> {DepartureText, ArrivalText}]

\* the filtered requests a paging client starts from (no pagination parameters)
PagerRequests ==
       {Request("/routes", <<>>, f) : f \in Queries(RoutesFilterValues, MaxFilters)}
  \cup {Request("/airports/:iata/routes", iata, d @@ f) :
          iata \in AirportCodes, d \in Queries(PagerDirectionValues, 1),
          f \in Queries(AirportFilterValues, MaxFilters)}
  \cup {Request("/countries/:country/routes", country, d @@ f) :
          country \in CountryNames, d \in Queries(PagerDirectionValues, 1),
          f \in Queries(CountryFilterValues, MaxFilters)}

PagerInit ==
  /\ request = NoRequest
  /\ response = NoResponse
  /\ dbLog = <<>>
  /\ pager \in {[state |-> "start", base |-> r, limit |-> l, pages |-> 0,
                 acc |-> <<>>, full |-> <<>>] :
                  r \in PagerRequests, l \in 1..MaxPageSize}
  /\ conns = NoConns

\* GET ...?all=true
FetchAll ==
  /\ pager.state = "start"
  /\ \E req \in {With(pager.base, "all", TrueText)} : \E out \in {Handle(req)} :
         /\ request' = req
         /\ response' = out.res
         /\ dbLog' = out.log
         /\ pager' = IF out.res.status = 200
                     THEN [pager EXCEPT !.state = "paging", !.full = out.res.body.routes]
                     ELSE [pager EXCEPT !.state = "failed"]
         /\ UNCHANGED conns

\* GET ...?all=false&limit=l&offset=pages*l
FetchPage ==
  /\ pager.state = "paging"
  /\ pager.pages < MaxPages
  /\ \E req \in {With(With(With(pager.base, "all", FalseText),
                               "limit", DecimalText(pager.limit)),
                          "offset", DecimalText(pager.pages * pager.limit))} :
     \E out \in {Handle(req)} :
         /\ request' = req
         /\ response' = out.res
         /\ dbLog' = out.log
         /\ pager' = IF out.res.status # 200
                     THEN [pager EXCEPT !.state = "failed"]
                     ELSE IF out.res.body.routes = <<>>
                          THEN [pager EXCEPT !.state = "done"]
                          ELSE [pager EXCEPT !.acc = @ \o out.res.body.routes,
                                             !.pages = @ + 1]
         /\ UNCHANGED conns

PagerNext == FetchAll \/ FetchPage

PagerSpec == PagerInit /\ [][PagerNext]_vars

(***************************************************************************)
(* C2.  For every filter set and page size limit >= 1 the pages at offsets *)
(* 0, limit, 2*limit, ... concatenated up to the first empty page are the  *)
(* row sequence of the all=true request: the pages read so far are always  *)
(* a prefix of it (same rows, same order, nothing repeated), and once the  *)
(* empty page arrives nothing is missing.  Rows of equal duration_min are  *)
(* in the dataset.                                                         *)
(***************************************************************************)
C2_PagesRebuildAll ==
  /\ pager.state # "failed"
  /\ pager.state \in {"paging", "done"} =>
        /\ Len(pager.acc) <= Len(pager.full)
        /\ pager.acc = SubSeq(pager.full, 1, Len(pager.acc))
  /\ pager.state = "done" => pager.acc = pager.full

\* five rows read in pages of two; the three rows of duration 60 span a page boundary
C2_Witness ==
  /\ pager.state = "done"
  /\ pager.limit = 2
  /\ Len(pager.full) = 5
  /\ pager.full[2].duration_min = pager.full[3].duration_min
  /\ pager.pages = 3

(***************************************************************************)
(* The effective limit and offset of the current request: the values the   *)
(* handler binds to LIMIT ? OFFSET ?.                                      *)
(***************************************************************************)
EffectiveLimit == LimitNum(Param(request.query, "limit", DefaultLimitText))

EffectiveOffset == OffsetNum(Param(request.query, "offset", DefaultOffsetText))

\* the text is a decimal integer literal of at least min
IsIntegerText(s, min) ==
  LET n == Number(s) IN s # <<>> /\ IsInteger(n) /\ IntegerOf(n) >= min

\* the request reaches the queries in paginated mode
Paginated ==
  request.endpoint \in RouteEndpoints /\ response.status # 400 /\ ~AsksAll(request)

(***************************************************************************)
(* C6.  On GET /routes in paginated mode the pagination object of a        *)
(* successful response reports all: false, limit, offset, total and        *)
(* returnedCount = routes.length.                                          *)
(***************************************************************************)
C6_PaginationReportsReturnedCount ==
  (request.endpoint = "/routes" /\ Answered /\ ~AsksAll(request))
  => /\ Meta.all = FALSE
     /\ Meta.limit = Json(EffectiveLimit)
     /\ Meta.offset = Json(EffectiveOffset)
     /\ Meta.total = Len(Handle(With(request, "all", TrueText)).res.body.routes)
     /\ "returnedCount" \in DOMAIN Meta
     /\ Meta.returnedCount = Len(Routes)

(***************************************************************************)
(* C7.  With all absent /routes and /countries/:country/routes answer in   *)
(* paginated mode (all: false, at most the effective limit rows) and       *)
(* /airports/:iata/routes in return-all mode (all: true, every matching    *)
(* row); all=true selects return-all mode and all=false paginated mode on  *)
(* every endpoint.                                                         *)
(***************************************************************************)
C7_ModeSelection ==
  (request.endpoint \in RouteEndpoints /\ response.status # 400)
  => /\ Answered
     /\ IF AsksAll(request)
        THEN /\ Meta.all = TRUE
             /\ Len(Routes) = Meta.total
        ELSE /\ Meta.all = FALSE
             /\ Len(Routes) * EffectiveLimit.den <= EffectiveLimit.num

(***************************************************************************)
(* C8.  In paginated mode, for every limit and offset text, the request    *)
(* does not fail, the effective limit is a positive integer (100 when the  *)
(* text is not a positive integer), the effective offset is a non-negative *)
(* integer (0 when the text is not a non-negative integer), and no more    *)
(* rows than the effective limit are returned.                             *)
(***************************************************************************)
C8_PaginationCoercion ==
  Paginated
  => /\ Answered
     /\ IsInteger(EffectiveLimit) /\ IntegerOf(EffectiveLimit) >= 1
     /\ ~IsIntegerText(Param(request.query, "limit", DefaultLimitText), 1)
           => EffectiveLimit = Num(100, 1)
     /\ IsInteger(EffectiveOffset) /\ IntegerOf(EffectiveOffset) >= 0
     /\ ~IsIntegerText(Param(request.query, "offset", DefaultOffsetText), 0)
           => EffectiveOffset = Num(0, 1)
     /\ Len(Routes) <= IntegerOf(EffectiveLimit)

(***************************************************************************)
(* C9.  On GET /routes a max_duration or min_duration that does not coerce *)
(* to a number is ignored: the response is the one the request without     *)
(* that parameter gets.                                                    *)
(***************************************************************************)
C9_BadDurationIgnored ==
  \A n \in {"max_duration", "min_duration"} :
     (request.endpoint = "/routes" /\ Has(request.query, n) /\ Number(request.query[n]).nan)
     => response = Handle(Without(request, {n})).res

(***************************************************************************)
(* C10.  As claimed: a filter parameter present with the empty string is   *)
(* applied as a filter on the empty value, so an exact-match filter lets   *)
(* through only the rows whose column is the empty string.                 *)
(***************************************************************************)
ExactMatchFilters ==
  {"departure_iata", "arrival_iata", "departure_country", "arrival_country"}

C10_EmptyValueIsLiteral ==
  (request.endpoint = "/routes" /\ Answered)
  => \A n \in ExactMatchFilters :
        (Has(request.query, n) /\ request.query[n] = <<>>)
        => \A i \in 1..Len(Routes) : Routes[i][n] = <<>>

(***************************************************************************)
(* C10, amended.  On the three route endpoints an optional filter          *)
(* parameter (airline_id, airline_name, departure_iata, arrival_iata,      *)
(* departure_country, arrival_country, max_duration, min_duration,         *)
(* destination_country) that is present with the empty string is treated   *)
(* as absent: the response is the one the request without it gets.         *)
(***************************************************************************)
OptionalFilters ==
  {"airline_id", "airline_name", "departure_iata", "arrival_iata",
   "departure_country", "arrival_country", "max_duration", "min_duration",
   "destination_country"}

EmptyFilters(req) ==
  {n \in (DOMAIN req.query) \cap OptionalFilters : req.query[n] = <<>>}

C10_EmptyValueIsAbsent ==
  (request.endpoint \in RouteEndpoints /\ EmptyFilters(request) # {})
  => response = Handle(Without(request, EmptyFilters(request))).res

\* arrival_country= answered with rows whose arrival_country is not empty
C10_Witness ==
  /\ request.endpoint = "/routes"
  /\ Answered
  /\ Has(request.query, "arrival_country")
  /\ request.query["arrival_country"] = <<>>
  /\ \E i \in 1..Len(Routes) : Routes[i].arrival_country # <<>>
  /\ \E i \in 1..Len(Dataset) : Dataset[i].arrival_country = <<>>

(***************************************************************************)
(* The rows a request matches: the rows of the same request in return-all  *)
(* mode.                                                                   *)
(***************************************************************************)
Matched(req) == Handle(With(req, "all", TrueText)).res.body.routes

\* v occurs in text character for character
LiteralSubstring(v, text) ==
  \E i \in 0..(Len(text) - Len(v)) : \A j \in 1..Len(v) : text[i + j] = v[j]

SameLetter(a, b) ==
  a = b \/ {a, b} \in {{"a", "A"}, {"b", "B"}, {"f", "F"}}

RECURSIVE Ends(_, _, _)
\* the positions of text at which a match of the first k characters of v,
\* begun anywhere, can end: % stands for any run of characters, _ for any one
\* character, a letter for itself in either case
Ends(v, k, text) ==
  IF k = 0 THEN 0..Len(text)
  ELSE Let(Ends(v, k - 1, text),
           LAMBDA before :
             IF v[k] = "%" THEN {p \in 0..Len(text) : \E b \in before : b <= p}
             ELSE {p \in 1..Len(text) :
                     (p - 1) \in before /\ (v[k] = "_" \/ SameLetter(v[k], text[p]))})

WildcardSubstring(v, text) == Ends(v, Len(v), text) # {}

RoutesFilters ==
  <<"airline_id", "airline_name", "departure_iata", "arrival_iata",
    "departure_country", "arrival_country", "max_duration", "min_duration">>

FragmentOf(n) ==
  CASE n = "airline_id" ->
         "route_id IN (SELECT route_id FROM route_airlines WHERE airline_id = ?)"
    [] n = "airline_name" -> "airline_name LIKE ?"
    [] n = "max_duration" -> "duration_min <= ?"
    [] n = "min_duration" -> "duration_min >= ?"
    [] OTHER -> n \o " = ?"

\* the filters that are present in a query with a value, in order; a filter
\* with the empty string is one that is not given (C10)
PresentFilters(q) == SelectSeq(RoutesFilters, LAMBDA n : Has(q, n) /\ q[n] # <<>>)

\* the bound value carries the value v of its filter: the text itself (inside
\* the pattern for airline_name) or the number it denotes
CarriesValue(p, v) ==
  \/ p.ty = "text" /\ LiteralSubstring(v, p.s)
  \/ p.ty = "num" /\ Num(p.num, p.den) = Number(v)

\* the row satisfies filter n with value v; a duration bound that is not a
\* number constrains nothing
Satisfies(n, v, row) ==
  CASE n = "airline_id" ->
         \E ra \in RouteAirlines :
            /\ ra.route_id = row.route_id
            /\ Number(v) = Num(ra.airline_id, 1)
    [] n = "airline_name" -> WildcardSubstring(v, row.airline_name)
    [] n = "max_duration" ->
         \E b \in {Number(v)} : b.nan \/ row.duration_min * b.den <= b.num
    [] n = "min_duration" ->
         \E b \in {Number(v)} : b.nan \/ row.duration_min * b.den >= b.num
    [] OTHER -> row[n] = v

(***************************************************************************)
(* C12.  On GET /routes, for every set of the eight filters that is        *)
(* present, each present filter contributes exactly one predicate, the     *)
(* i-th bound value is the value of the filter of the i-th predicate,      *)
(* absent filters contribute none, and the matched rows are exactly the    *)
(* rows that satisfy every present filter (duration bounds inclusive);     *)
(* with no filter present every row of the dataset is matched.             *)
(***************************************************************************)
C12_OnePredicatePerFilter ==
  request.endpoint = "/routes"
  => \E q \in {request.query} : \E present \in {PresentFilters(q)} :
     \E plan \in {RoutesPlan(q)} :
       /\ Len(plan.conditions) = Len(present)
       /\ Len(plan.params) = Len(present)
       /\ \A i \in 1..Len(present) :
             /\ plan.conditions[i] = FragmentOf(present[i])
             /\ CarriesValue(plan.params[i], q[present[i]])
       /\ Matched(request)
            = SelectSeq(OrderByDuration(Dataset),
                        LAMBDA row : \A i \in 1..Len(present) :
                                        Satisfies(present[i], q[present[i]], row))

(***************************************************************************)
(* The side of a route a scoped request binds its key to, and the optional *)
(* filters of the request that carry a value.                              *)
(***************************************************************************)
Direction(req) == Param(req.query, "direction", DepartureText)

\* the rows of the dataset that pass a test, counted
CountRows(Test(_)) == Cardinality({i \in 1..Len(Dataset) : Test(Dataset[i])})

AirlineFiltersHold(q, row) ==
  \A n \in {"airline_id", "airline_name"} :
     (Has(q, n) /\ q[n] # <<>>) => Satisfies(n, q[n], row)

(***************************************************************************)
(* C13.  On GET /airports/:iata/routes with airport code k: when direction *)
(* is absent or "departure" every returned row has departure_iata = k and  *)
(* total counts every dataset row with departure_iata = k that satisfies   *)
(* the optional airline filters; when direction is "arrival" the same      *)
(* holds with arrival_iata.                                                *)
(***************************************************************************)
C13_AirportBindsDirectionSide ==
  (request.endpoint = "/airports/:iata/routes" /\ Answered)
  => \E k \in {request.key} : \E q \in {request.query} :
       /\ Direction(request) = DepartureText
          => /\ \A i \in 1..Len(Routes) : Routes[i].departure_iata = k
             /\ Meta.total = CountRows(LAMBDA row : /\ row.departure_iata = k
                                                    /\ AirlineFiltersHold(q, row))
       /\ Direction(request) = ArrivalText
          => /\ \A i \in 1..Len(Routes) : Routes[i].arrival_iata = k
             /\ Meta.total = CountRows(LAMBDA row : /\ row.arrival_iata = k
                                                    /\ AirlineFiltersHold(q, row))

\* the two routes that arrive at LHR, none of which departs from it
C13_Witness ==
  /\ request.endpoint = "/airports/:iata/routes"
  /\ request.key = LHR
  /\ Has(request.query, "direction") /\ request.query["direction"] = ArrivalText
  /\ Answered
  /\ Meta.total = 2
  /\ Len(Routes) = 2
  /\ \A i \in 1..Len(Routes) : Routes[i].departure_iata = CDG
  /\ CountRows(LAMBDA row : row.departure_iata = LHR) = 3

\* destination_country carries a value
DestinationGiven(q) == Has(q, "destination_country") /\ q["destination_country"] # <<>>

\* the row has country c on the near side and, when a destination is given,
\* the destination on the far side
OnSides(q, row, near, c, far) ==
  /\ row[near] = c
  /\ DestinationGiven(q) => row[far] = q["destination_country"]

(***************************************************************************)
(* C14.  On GET /countries/:country/routes with country c and              *)
(* destination_country d: when direction is absent or "departure" every    *)
(* returned row has departure_country = c and arrival_country = d; when    *)
(* direction is "arrival" every returned row has arrival_country = c and   *)
(* departure_country = d; without a destination_country only the side of   *)
(* the direction is constrained.  total counts every dataset row so        *)
(* constrained that passes the airline_name filter.  A destination_country *)
(* with the empty string is one that is not given (C10).                   *)
(***************************************************************************)
C14_CountryBindsBothSides ==
  (request.endpoint = "/countries/:country/routes" /\ Answered)
  => \E c \in {request.key} : \E q \in {request.query} :
       /\ Direction(request) = DepartureText
          => /\ \A i \in 1..Len(Routes) :
                   OnSides(q, Routes[i], "departure_country", c, "arrival_country")
             /\ Meta.total
                  = CountRows(LAMBDA row :
                      /\ OnSides(q, row, "departure_country", c, "arrival_country")
                      /\ AirlineFiltersHold(q, row))
       /\ Direction(request) = ArrivalText
          => /\ \A i \in 1..Len(Routes) :
                   OnSides(q, Routes[i], "arrival_country", c, "departure_country")
             /\ Meta.total
                  = CountRows(LAMBDA row :
                      /\ OnSides(q, row, "arrival_country", c, "departure_country")
                      /\ AirlineFiltersHold(q, row))

\* the routes from France that arrive in the United Kingdom
C14_Witness ==
  /\ request.endpoint = "/countries/:country/routes"
  /\ request.key = UK
  /\ Has(request.query, "direction") /\ request.query["direction"] = ArrivalText
  /\ Has(request.query, "destination_country")
  /\ request.query["destination_country"] = FR
  /\ Answered
  /\ Meta.total = 2
  /\ Len(Routes) = 2
  /\ \A i \in 1..Len(Routes) :
        Routes[i].arrival_country = UK /\ Routes[i].departure_country = FR
  /\ CountRows(LAMBDA row : row.departure_country = UK /\ row.arrival_country = FR) = 2

(***************************************************************************)
(* The server with several connections open at the same time.  A handler   *)
(* has no await (better-sqlite3 is synchronous), so the event loop runs    *)
(* the handlers of the pending requests one after the other, in any order, *)
(* and the answers are read in any order.  A statement of a handler may    *)
(* throw (an error of the database).                                       *)
(***************************************************************************)
Clients == 1..MaxClients

\* the statement of a handler that throws, if any
Faults == {"none", "count", "rows"}

\* the requests in flight: the three endpoints, both modes, a rejected
\* direction and a page whose LIMIT is not an integer
ServerRequests ==
  { Request("/routes", <<>>, EmptyQuery),
    Request("/routes", <<>>,
            ("departure_country" :> UK) @@ ("limit" :> <<"1">>) @@ ("offset" :> <<"1">>)),
    Request("/routes", <<>>, ("airline_name" :> <<"b">>) @@ ("all" :> TrueText)),
    Request("/routes", <<>>, ("limit" :> <<"2", ".", "5">>)),
    Request("/airports/:iata/routes", LHR, ("direction" :> ArrivalText)),
    Request("/airports/:iata/routes", CDG, ("direction" :> <<"b", "o", "g", "u", "s">>)),
    Request("/countries/:country/routes", UK,
            ("destination_country" :> FR) @@ ("limit" :> <<"2">>)),
    Request("/countries/:country/routes", FR,
            ("direction" :> ArrivalText) @@ ("all" :> TrueText)) }

IdleConn == [state |-> "idle", req |-> NoRequest, sent |-> <<>>, log |-> <<>>]

\* a handler that reads the request from a place all connections share
HandlerRequestShared(cs, c) == cs[CHOOSE d \in Clients : cs[d].state # "idle"].req

\* the req object Express passes to the handler of connection c
HandlerRequest(cs, c) == cs[c].req

\* try { count; rows; res.json(...) } catch (error) { res.status(500).json(...) }:
\* the responses written and the statements run; a request rejected before the
\* first statement is not touched by a fault
RunHandler(req, fault) ==
  Let(Handle(req),
      LAMBDA out :
        IF out.log = <<>> THEN [sent |-> <<out.res>>, log |-> <<>>]
        ELSE IF fault = "count"
             THEN [sent |-> <<InternalError>>, log |-> <<"count failed">>]
             ELSE IF fault = "rows"
                  THEN [sent |-> <<InternalError>>,
                        log  |-> <<"count", IF out.log[2] = "all"
                                            THEN "all failed" ELSE "page failed">>]
                  ELSE [sent |-> <<out.res>>, log |-> out.log])

ServerInit ==
  /\ request = NoRequest
  /\ response = NoResponse
  /\ dbLog = <<>>
  /\ pager = NoPager
  /\ conns = [c \in Clients |-> IdleConn]

\* a client sends a request
Connect(c) ==
  /\ conns[c].state = "idle"
  /\ \E req \in ServerRequests :
        conns' = [conns EXCEPT ![c] = [state |-> "pending", req |-> req,
                                       sent |-> <<>>, log |-> <<>>]]
  /\ UNCHANGED <<request, response, dbLog, pager>>

\* the event loop runs the handler of one pending request to its end
HandleRequest(c) ==
  /\ conns[c].state = "pending"
  /\ \E fault \in Faults : \E run \in {RunHandler(HandlerRequest(conns, c), fault)} :
        conns' = [conns EXCEPT ![c].state = "answered",
                               ![c].sent = @ \o run.sent,
                               ![c].log = run.log]
  /\ UNCHANGED <<request, response, dbLog, pager>>

\* the client reads what was sent and the connection is free again
Close(c) ==
  /\ conns[c].state = "answered"
  /\ conns' = [conns EXCEPT ![c] = IdleConn]
  /\ UNCHANGED <<request, response, dbLog, pager>>

ServerNext == \E c \in Clients : Connect(c) \/ HandleRequest(c) \/ Close(c)

ServerSpec == ServerInit /\ [][ServerNext]_vars

\* the last statement the handler of a connection ran threw
QueryFailed(conn) ==
  /\ conn.log # <<>>
  /\ conn.log[Len(conn.log)] \in {"count failed", "all failed", "page failed"}

(***************************************************************************)
(* C15.  On every route endpoint, when the count statement or the row      *)
(* statement of a request fails the request receives exactly one response: *)
(* status 500 with the body {error: "Internal server error"} and nothing   *)
(* else in it (no rows, no total, no cause), also when the count succeeded *)
(* and only the row statement failed.                                      *)
(***************************************************************************)
C15_QueryFailureIsGeneric500 ==
  \A c \in Clients :
     (conns[c].state = "answered" /\ QueryFailed(conns[c]))
     => conns[c].sent = <<[status |-> 500, body |-> [error |-> "Internal server error"]]>>

\* one request whose count failed and one whose count succeeded and whose row
\* statement failed, on different endpoints
C15_Witness ==
  \E c, d \in Clients :
     /\ conns[c].state = "answered" /\ conns[c].log = <<"count failed">>
     /\ conns[c].req.endpoint = "/countries/:country/routes"
     /\ conns[d].state = "answered" /\ conns[d].log = <<"count", "all failed">>
     /\ conns[d].req.endpoint = "/airports/:iata/routes"
     /\ Len(conns[c].sent) = 1 /\ Len(conns[d].sent) = 1

LimitExceedsTotal ==
  \E limit \in {Number(Param(request.query, "limit", DefaultLimitText))} :
     ~limit.nan /\ limit.num > Meta.total * limit.den

Skipped == IF EffectiveOffset.num < 0 THEN 0 ELSE IntegerOf(EffectiveOffset)

====
